---- MODULE Spec2Model ----
(***************************************************************************)
(* Model of three components of Control-Surface:                           *)
(*   - IncrementSelector       (src/src/Selectors/IncrementSelector.hpp)   *)
(*   - Bankable::MIDIRotaryEncoder                                         *)
(*       (src/src/MIDI_Outputs/Bankable/Abstract/MIDIRotaryEncoder.hpp)    *)
(*   - AH::ShiftRegisterIn<N>                                              *)
(*       (src/src/AH/Hardware/ExtendedInputOutput/ShiftRegisterIn.hpp)     *)
(* Spec    : the selector and the encoder sharing one Bank.                *)
(* SpecSR  : the shift-register input device.                              *)
(***************************************************************************)
EXTENDS Integers, Sequences, FiniteSets, TLC

\* ------------------------------------------------------------------ bounds
MaxSettings      == 4      \* numberOfSettings ranges over 0..MaxSettings
MaxPulsesPerStep == 4      \* pulsesPerStep ranges over 0..MaxPulsesPerStep
MaxSpeedMultiply == 2      \* speedMultiply ranges over 1..MaxSpeedMultiply
MaxPosition      == 6      \* encoder positions range over -MaxPosition..MaxPosition
MaxN             == 9      \* template size N ranges over 1..MaxN
MaxOnes          == 1      \* high samples on the data line per refresh

\* ------------------------------------------------------- program constants
SettingRange == 256        \* setting_t is uint8_t: arithmetic modulo 2^8
BufferBits   == 8          \* uint8_t buffer: eight buffer bits
ShiftBits    == 8          \* shiftIn() clocks in one byte
LOW          == 0
HIGH         == 1

BaseAddresses == {10}      \* base address the encoder is constructed with
Strides       == {1, 5}    \* addresses per bank of the OutputBankConfig

VARIABLES
    \* --- Bank / IncrementSelector
    numberOfSettings,   \* Selector::numberOfSettings
    wrap,               \* IncrementSelector::wrap
    setting,            \* the selected index (Selector::get / Bank index)
    \* --- Bankable::MIDIRotaryEncoder
    address,            \* MIDIRotaryEncoder::address (base address)
    stride,             \* OutputBankConfig: addresses per bank
    speedMultiply,      \* MIDIRotaryEncoder::speedMultiply
    pulsesPerStep,      \* MIDIRotaryEncoder::pulsesPerStep
    position,           \* value returned by the last encoder.read()
    previousPosition,   \* MIDIRotaryEncoder::previousPosition
    sent,               \* events passed to send() by the last operation
    total,              \* sum of all values passed to send() so far
    buttonSampled,      \* the last operation called button.getState()
    \* --- ShiftRegisterIn<N>
    N,                  \* template parameter N
    buffer,             \* ShiftRegisterIn::buffer
    level,              \* output level of clockPin, clockEnablePin, loadPin
    pinModes,           \* mode of dataPin, clockPin, clockEnablePin, loadPin
    trace,              \* line operations performed by the last operation
    sampled,            \* data-line samples of the last refresh (<<>> if none)
    \* --- bookkeeping
    op,                 \* name of the last operation that ran
    fault               \* "none", or the fault that stopped the program

vars == <<numberOfSettings, wrap, setting, address, stride, speedMultiply,
          pulsesPerStep, position, previousPosition, sent, total,
          buttonSampled, N, buffer, level, pinModes, trace, sampled, op,
          fault>>

selVars == <<numberOfSettings, wrap, setting>>
encVars == <<address, stride, speedMultiply, pulsesPerStep, position,
             previousPosition, sent, total>>
srVars  == <<N, buffer, level, pinModes, trace, sampled>>

Positions == (-MaxPosition)..MaxPosition

\* ===================================================== IncrementSelector ==

\* Selector::get(): the currently selected index.
get == setting

\* Selector::getNumberOfSettings().
getNumberOfSettings == numberOfSettings

\* The index is valid iff it lies in [0, numberOfSettings).
validSetting(s) == s >= 0 /\ s < numberOfSettings

\* Selector::set(): an in-range index is selected, an out-of-range index is
\* rejected by the range assertion.
set(s) ==
    IF validSetting(s)
    THEN setting' = s /\ fault' = fault
    ELSE setting' = setting /\ fault' = "range"

\* Mutants of incremented (see below).
incremented_noLimit(s, n, w) == (s + 1) % SettingRange

incremented_skipLast(s, n, w) ==
    LET s1 == (s + 1) % SettingRange
    IN  IF s1 = n - 1 /\ w THEN 0
        ELSE IF s1 = n THEN (IF w THEN 0 ELSE (s1 - 1) % SettingRange)
        ELSE s1

incremented_alwaysClamp(s, n, w) ==
    LET s1 == (s + 1) % SettingRange
    IN  IF s1 = n THEN (s1 - 1) % SettingRange ELSE s1

incremented_alwaysWrap(s, n, w) ==
    LET s1 == (s + 1) % SettingRange
    IN  IF s1 = n THEN 0 ELSE s1

\* The value IncrementSelector::increment() passes to set(), for current
\* index s, n settings and wrap flag w (uint8_t arithmetic).
incremented(s, n, w) ==
    LET s1 == (s + 1) % SettingRange
    IN  IF s1 = n
        THEN (IF w THEN 0 ELSE (s1 - 1) % SettingRange)
        ELSE s1

\* IncrementSelector::increment().
increment ==
    /\ fault = "none"
    /\ set(incremented(get, getNumberOfSettings, wrap))
    /\ op' = "increment"
    /\ sent' = <<>>
    /\ buttonSampled' = FALSE
    /\ UNCHANGED <<numberOfSettings, wrap, address, stride, speedMultiply,
                   pulsesPerStep, position, previousPosition, total>>
    /\ UNCHANGED srVars

\* IncrementSelector::update() when button.getState() == Increment.
updateIncrement ==
    /\ fault = "none"
    /\ set(incremented(get, getNumberOfSettings, wrap))
    /\ op' = "selectorUpdateIncrement"
    /\ sent' = <<>>
    /\ buttonSampled' = TRUE
    /\ UNCHANGED <<numberOfSettings, wrap, address, stride, speedMultiply,
                   pulsesPerStep, position, previousPosition, total>>
    /\ UNCHANGED srVars

\* Mutant of updateNothing: update() increments whatever the button reports.
updateNothing_increments ==
    /\ fault = "none"
    /\ set(incremented(get, getNumberOfSettings, wrap))
    /\ op' = "selectorUpdateNothing"
    /\ sent' = <<>>
    /\ buttonSampled' = TRUE
    /\ UNCHANGED <<numberOfSettings, wrap, address, stride, speedMultiply,
                   pulsesPerStep, position, previousPosition, total>>
    /\ UNCHANGED srVars

\* IncrementSelector::update() when button.getState() is anything else.
updateNothing ==
    /\ fault = "none"
    /\ op' = "selectorUpdateNothing"
    /\ sent' = <<>>
    /\ buttonSampled' = TRUE
    /\ UNCHANGED <<numberOfSettings, wrap, setting, fault, address, stride,
                   speedMultiply, pulsesPerStep, position, previousPosition,
                   total>>
    /\ UNCHANGED srVars

\* IncrementSelector::beginInput(): button.begin() only.
beginInput ==
    /\ fault = "none"
    /\ op' = "beginInput"
    /\ sent' = <<>>
    /\ buttonSampled' = FALSE
    /\ UNCHANGED <<numberOfSettings, wrap, setting, fault, address, stride,
                   speedMultiply, pulsesPerStep, position, previousPosition,
                   total>>
    /\ UNCHANGED srVars

\* ============================================ Bankable::MIDIRotaryEncoder ==

\* C++ integer division: the quotient is truncated toward zero (b > 0).
TruncDiv(a, b) == IF a >= 0 THEN a \div b ELSE -((-a) \div b)

\* BankableMIDIOutput::getAddressOffset(): bank index times stride, read
\* from the Bank at the time of the call.
getAddressOffset == setting * stride

\* Mutant: the offset of the bank selected at construction (index 0).
sendAddress_cached == address + 0 * stride

\* MIDIRotaryEncoder::update(), line 49.
sendAddress == address + getAddressOffset

\* Mutant of difference: floor division.
difference_floor(currentPosition, prev, pps) ==
    (currentPosition - prev) \div pps

\* MIDIRotaryEncoder::update(), line 51 (pps >= 1).
difference(currentPosition, prev, pps) ==
    TruncDiv(currentPosition - prev, pps)

\* Mutant of advance: previousPosition = currentPosition.
advance_toCurrent(prev, d, pps, currentPosition) == currentPosition

\* Mutant of advance: previousPosition += difference.
advance_byDelta(prev, d, pps, currentPosition) == prev + d

\* MIDIRotaryEncoder::update(), line 55.
advance(prev, d, pps, currentPosition) == prev + d * pps

\* Mutant of emit: the step count is sent without the speed multiplier.
emit_unscaled(d, currentPosition) ==
    IF d # 0
    THEN /\ sent' = <<[delta |-> d, address |-> sendAddress]>>
         /\ total' = total + d
         /\ previousPosition' =
                advance(previousPosition, d, pulsesPerStep, currentPosition)
    ELSE /\ sent' = <<>>
         /\ total' = total
         /\ previousPosition' = previousPosition

\* MIDIRotaryEncoder::update(), lines 53-56, for quotient d.
emit(d, currentPosition) ==
    IF d # 0
    THEN /\ sent' = <<[delta |-> d * speedMultiply, address |-> sendAddress]>>
         /\ total' = total + d * speedMultiply
         /\ previousPosition' =
                advance(previousPosition, d, pulsesPerStep, currentPosition)
    ELSE /\ sent' = <<>>
         /\ total' = total
         /\ previousPosition' = previousPosition

\* MIDIRotaryEncoder::update() with pulsesPerStep >= 1.
encoderUpdate ==
    /\ fault = "none"
    /\ pulsesPerStep >= 1
    /\ \E currentPosition \in Positions :
          /\ position' = currentPosition
          /\ emit(difference(currentPosition, previousPosition, pulsesPerStep),
                  currentPosition)
    /\ op' = "encoderUpdate"
    /\ buttonSampled' = FALSE
    /\ UNCHANGED <<address, stride, speedMultiply, pulsesPerStep, fault>>
    /\ UNCHANGED selVars
    /\ UNCHANGED srVars

\* Quotients a build that does not trap may yield for a division by zero.
UndefinedQuotients == {-1, 0, 1}

\* With pulsesPerStep = 0 nothing bounds the sum of the sent values; it is
\* followed while its magnitude is at most MaxSpeedMultiply.
TotalInRange(t) == t >= -MaxSpeedMultiply /\ t <= MaxSpeedMultiply

\* MIDIRotaryEncoder::update() with pulsesPerStep = 0: the division on
\* line 51 is undefined; the build either traps or yields some quotient.
encoderUpdateDivZero ==
    /\ fault = "none"
    /\ pulsesPerStep = 0
    /\ \E currentPosition \in Positions :
          /\ position' = currentPosition
          /\ \/ /\ fault' = "div"
                /\ sent' = <<>>
                /\ UNCHANGED <<previousPosition, total>>
             \/ /\ fault' = fault
                /\ \E d \in UndefinedQuotients :
                      /\ TotalInRange(total + d * speedMultiply)
                      /\ emit(d, currentPosition)
    /\ op' = "encoderUpdate"
    /\ buttonSampled' = FALSE
    /\ UNCHANGED <<address, stride, speedMultiply, pulsesPerStep>>
    /\ UNCHANGED selVars
    /\ UNCHANGED srVars

\* ============================================================ driver loop ==

\* States IncrementButton::getState() reports to IncrementSelector::update().
ButtonStates == {"Nothing", "Increment"}

\* BankableMIDIOutput::getAddressOffset() when the Bank holds index.
getAddressOffsetAt(index) == index * stride

\* Mutant of sendAddressAt: the bank offset is left out.
sendAddressAt_noOffset(index) == address

\* MIDIRotaryEncoder::update(), line 49, when the Bank holds index.
sendAddressAt(index) == address + getAddressOffsetAt(index)

\* MIDIRotaryEncoder::update(), lines 53-56, for quotient d, when the Bank
\* holds index.
emitAt(d, currentPosition, index) ==
    IF d # 0
    THEN /\ sent' = <<[delta |-> d * speedMultiply,
                       address |-> sendAddressAt(index)]>>
         /\ total' = total + d * speedMultiply
         /\ previousPosition' =
                advance(previousPosition, d, pulsesPerStep, currentPosition)
    ELSE /\ sent' = <<>>
         /\ total' = total
         /\ previousPosition' = previousPosition

\* MIDIRotaryEncoder::update() reading currentPosition when the Bank holds
\* index.
encoderUpdateAt(currentPosition, index) ==
    /\ position' = currentPosition
    /\ IF pulsesPerStep >= 1
       THEN /\ fault' = fault
            /\ emitAt(difference(currentPosition, previousPosition,
                                 pulsesPerStep), currentPosition, index)
       ELSE \/ /\ fault' = "div"
               /\ sent' = <<>>
               /\ UNCHANGED <<previousPosition, total>>
            \/ /\ fault' = fault
               /\ \E d \in UndefinedQuotients :
                     /\ TotalInRange(total + d * speedMultiply)
                     /\ emitAt(d, currentPosition, index)

\* One iteration of the driver loop: IncrementSelector::update() first, then
\* MIDIRotaryEncoder::update() on the same Bank.
loopIteration ==
    /\ fault = "none"
    /\ \E button \in ButtonStates, currentPosition \in Positions :
          LET target   == incremented(get, getNumberOfSettings, wrap)
              rejected == button = "Increment" /\ ~validSetting(target)
              newIndex == IF button = "Increment" /\ validSetting(target)
                          THEN target ELSE setting
          IN  /\ setting' = newIndex
              /\ op' = IF button = "Increment" THEN "loopIncrement"
                       ELSE "loopNothing"
              /\ IF rejected
                 THEN /\ fault' = "range"
                      /\ sent' = <<>>
                      /\ UNCHANGED <<position, previousPosition, total>>
                 ELSE encoderUpdateAt(currentPosition, newIndex)
    /\ buttonSampled' = TRUE
    /\ UNCHANGED <<numberOfSettings, wrap, address, stride, speedMultiply,
                   pulsesPerStep>>
    /\ UNCHANGED srVars

\* ======================================================= ShiftRegisterIn ==

ControlLines == {"clock", "clockEnable", "load"}
INPUT        == 0
INPUT_PULLUP == 2
OUTPUT       == 1
PinModes     == {INPUT, OUTPUT, INPUT_PULLUP}   \* every PinMode_t value pinMode forwards
Bits         == {0, 1}

\* The data-line sample sequences of one refresh: ShiftBits samples, at most
\* MaxOnes of them high.
Samples ==
    {b \in [1..ShiftBits -> Bits] :
        Cardinality({i \in 1..ShiftBits : b[i] = 1}) <= MaxOnes}

Pow2(k) == 2 ^ k

\* Arduino bitRead(value, bit): ((value) >> (bit)) & 0x01.
bitRead(value, bit) == (value \div Pow2(bit)) % 2

\* ExtIO::digitalWrite(pin, lvl) as a line operation.
WriteOp(pin, lvl) == <<"write", pin, lvl>>

\* digitalRead(dataPin) inside shiftIn() as a line operation.
SampleOp(bit) == <<"sample", "data", bit>>

\* The assignment to buffer on line 222, recorded among the line operations.
StoreOp(value) == <<"store", "buffer", value>>

\* ExtIO::pinMode(pin, mode) as a line operation.
ModeOp(pin, mode) == <<"mode", pin, mode>>

\* Mutant of shiftInBitPos: MSBFIRST.
shiftInBitPos_msbFirst(i) == (ShiftBits - 1) - i

\* Buffer bit that shiftIn(.., LSBFIRST) stores the i-th sample in (i from 0).
shiftInBitPos(i) == i

RECURSIVE shiftInValue(_, _)
\* Value assembled by shiftIn() from samples bits[1..k].
shiftInValue(bits, k) ==
    IF k = 0 THEN 0
    ELSE shiftInValue(bits, k - 1) + bits[k] * Pow2(shiftInBitPos(k - 1))

\* shiftIn(dataPin, clockPin, LSBFIRST): return value for the given samples.
shiftIn(bits) == shiftInValue(bits, ShiftBits)

\* Line operations of shiftIn(): for each of the ShiftBits bits in turn,
\* clock high, sample the data line, clock low.
shiftInOps(bits) ==
    [j \in 1..(3 * ShiftBits) |->
        CASE j % 3 = 1 -> WriteOp("clock", HIGH)
          [] j % 3 = 2 -> SampleOp(bits[(j + 1) \div 3])
          [] OTHER     -> WriteOp("clock", LOW)]

\* Mutant of prepareReading: the clock is enabled before the latch pulse.
prepareReading_enableFirst ==
    <<WriteOp("clockEnable", LOW), WriteOp("load", LOW), WriteOp("load", HIGH)>>

\* ShiftRegisterIn::prepareReading().
prepareReading ==
    <<WriteOp("load", LOW), WriteOp("load", HIGH), WriteOp("clockEnable", LOW)>>

\* Mutant of afterReading: the clock is left enabled.
afterReading_leaveEnabled == <<>>

\* ShiftRegisterIn::afterReading().
afterReading == <<WriteOp("clockEnable", HIGH)>>

\* Values the operations ops of the given kind give to pin last: the empty
\* set if ops contain no such operation on pin.
LastSet(ops, kind, pin) ==
    LET idx == {i \in 1..Len(ops) : ops[i][1] = kind /\ ops[i][2] = pin}
    IN  IF idx = {} THEN {}
        ELSE {ops[CHOOSE i \in idx : \A j \in idx : j <= i][3]}

\* A run of line operations together with its net effect: for every line
\* the last level written and the last mode set.
Run(ops) ==
    [ops    |-> ops,
     levels |-> [p \in ControlLines |-> LastSet(ops, "write", p)],
     modes  |-> [p \in ControlLines \cup {"data"} |-> LastSet(ops, "mode", p)]]

\* State of the lines cur after a run with net effect eff.
Override(cur, eff) ==
    [p \in DOMAIN cur |->
        IF eff[p] = {} THEN cur[p] ELSE CHOOSE v \in eff[p] : TRUE]

\* An operation of the device that performs the line operations of run and
\* leaves newBuffer in the buffer.
Perform(name, run, newBuffer) ==
    /\ op' = name
    /\ trace' = run.ops
    /\ level' = Override(level, run.levels)
    /\ pinModes' = Override(pinModes, run.modes)
    /\ buffer' = newBuffer
    /\ UNCHANGED <<N, fault, buttonSampled>>
    /\ UNCHANGED selVars
    /\ UNCHANGED encVars

Pins == 0..(N - 1)

\* ShiftRegisterIn::digitalRead(pin): return value.
digitalRead(pin) == bitRead(buffer, pin)

\* ShiftRegisterIn::digitalReadBuffered(pin): return value.
digitalReadBuffered(pin) == bitRead(buffer, pin)

\* ShiftRegisterIn::analogRead(pin): return value.
analogRead(pin) == 0

\* ShiftRegisterIn::analogReadBuffered(pin): return value.
analogReadBuffered(pin) == analogRead(pin)

\* Line operations of ShiftRegisterIn::begin().
beginOps ==
    <<ModeOp("clock", OUTPUT), ModeOp("clockEnable", OUTPUT),
      ModeOp("load", OUTPUT), WriteOp("clock", LOW),
      WriteOp("load", HIGH), WriteOp("clockEnable", HIGH)>>

beginRun == Run(beginOps)

\* ShiftRegisterIn::begin().
begin ==
    /\ Perform("begin", beginRun, buffer)
    /\ UNCHANGED sampled

\* Line operations of one updateBufferedInputs() call sampling bits.
refreshOps(bits) ==
    prepareReading \o shiftInOps(bits) \o <<StoreOp(shiftIn(bits))>>
        \o afterReading

\* The possible runs of updateBufferedInputs(): the data-line samples, the
\* line operations performed and the value shiftIn() returns.
Refreshes ==
    {[bits |-> b, run |-> Run(refreshOps(b)), value |-> shiftIn(b)] :
        b \in Samples}

\* ShiftRegisterIn::updateBufferedInputs().
updateBufferedInputs ==
    \E r \in Refreshes :
        /\ Perform("updateBufferedInputs", r.run, r.value)
        /\ sampled' = r.bits

\* ShiftRegisterIn::pinMode(pin, mode): the pin argument is unused, the mode
\* is forwarded to the data pin.
pinMode ==
    \E mode \in PinModes :
        /\ Pins # {}
        /\ Perform("pinMode", Run(<<ModeOp("data", mode)>>), buffer)
        /\ UNCHANGED sampled

\* ShiftRegisterIn::pinModeBuffered(pin, mode): calls pinMode(dataPin, mode).
pinModeBuffered ==
    \E mode \in PinModes :
        /\ Pins # {}
        /\ Perform("pinModeBuffered", Run(<<ModeOp("data", mode)>>), buffer)
        /\ UNCHANGED sampled

\* The run of a call that touches no line.
NoRun == Run(<<>>)

\* A call, for any pin argument, that changes nothing.
EmptyCall(name) ==
    /\ Pins # {}
    /\ Perform(name, NoRun, buffer)
    /\ UNCHANGED sampled

\* Calls of digitalRead, digitalReadBuffered, analogRead, analogReadBuffered:
\* they return a value (see the operators above) and change nothing.
analogReadCall          == EmptyCall("analogRead")
analogReadBufferedCall  == EmptyCall("analogReadBuffered")
digitalReadBufferedCall == EmptyCall("digitalReadBuffered")

\* Mutant of digitalReadCall: an unbuffered read that samples the hardware.
digitalReadCall_sampling ==
    \E r \in Refreshes :
        /\ Pins # {}
        /\ Perform("digitalRead", r.run, r.value)
        /\ sampled' = r.bits

digitalReadCall == EmptyCall("digitalRead")

\* Mutant of digitalWrite: the written level is stored in the buffer bit.
digitalWrite_store ==
    \E pin \in Pins, lvl \in Bits :
        /\ Perform("digitalWrite", NoRun,
                   buffer - bitRead(buffer, pin) * Pow2(pin) + lvl * Pow2(pin))
        /\ UNCHANGED sampled

\* ShiftRegisterIn::digitalWrite(pin, status): empty body.
digitalWrite == EmptyCall("digitalWrite")

\* ShiftRegisterIn::digitalWriteBuffered(pin, status): empty body.
digitalWriteBuffered == EmptyCall("digitalWriteBuffered")

\* ShiftRegisterIn::analogWrite(pin, value): empty body.
analogWrite == EmptyCall("analogWrite")

\* ShiftRegisterIn::analogWriteBuffered(pin, value): empty body.
analogWriteBuffered == EmptyCall("analogWriteBuffered")

\* ShiftRegisterIn::updateBufferedOutputs(): empty body.
updateBufferedOutputs == EmptyCall("updateBufferedOutputs")

\* Line levels and modes of an unconfigured microcontroller.
IdleLevel == [p \in ControlLines |-> LOW]
IdleModes == [p \in ControlLines \cup {"data"} |-> INPUT]

\* Values an uninitialized uint8_t member can hold.
Uninitialized == 0..(Pow2(BufferBits) - 1)

\* State after constructing a ShiftRegisterIn<N>: the constructor sets the
\* four pin members and leaves buffer uninitialized.
InitSR ==
    /\ N \in 1..MaxN
    /\ buffer \in Uninitialized
    /\ level = IdleLevel
    /\ pinModes = IdleModes
    /\ trace = <<>>
    /\ sampled = <<>>
    /\ op = "init"
    /\ fault = "none"
    /\ numberOfSettings = 1
    /\ wrap = TRUE
    /\ setting = 0
    /\ address = 0
    /\ stride = 1
    /\ speedMultiply = 1
    /\ pulsesPerStep = 1
    /\ position = 0
    /\ previousPosition = 0
    /\ sent = <<>>
    /\ total = 0
    /\ buttonSampled = FALSE

NextSR ==
    \/ begin
    \/ updateBufferedInputs
    \/ pinMode
    \/ pinModeBuffered
    \/ digitalReadCall
    \/ digitalReadBufferedCall
    \/ analogReadCall
    \/ analogReadBufferedCall
    \/ digitalWrite
    \/ digitalWriteBuffered
    \/ analogWrite
    \/ analogWriteBuffered
    \/ updateBufferedOutputs

SpecSR == InitSR /\ [][NextSR]_vars

\* ================================================================ Spec ====

\* State after constructing the selector and the encoder on one Bank.
Init ==
    /\ numberOfSettings \in 0..MaxSettings
    /\ wrap \in BOOLEAN
    /\ setting = 0
    /\ address \in BaseAddresses
    /\ stride \in Strides
    /\ speedMultiply \in 1..MaxSpeedMultiply
    /\ pulsesPerStep \in 0..MaxPulsesPerStep
    /\ position = 0
    /\ previousPosition = 0
    /\ sent = <<>>
    /\ total = 0
    /\ buttonSampled = FALSE
    /\ N = 1
    /\ buffer = 0
    /\ level = IdleLevel
    /\ pinModes = IdleModes
    /\ trace = <<>>
    /\ sampled = <<>>
    /\ op = "init"
    /\ fault = "none"

Next ==
    \/ increment
    \/ updateIncrement
    \/ updateNothing
    \/ beginInput
    \/ encoderUpdate
    \/ encoderUpdateDivZero
    \/ loopIteration

Spec == Init /\ [][Next]_vars

\* The selector alone, polled by a driver loop in which increment events keep
\* occurring.
NextSelector ==
    \/ increment
    \/ updateIncrement
    \/ updateNothing
    \/ beginInput

SpecIncrementEvents ==
    Init /\ [][NextSelector]_vars /\ WF_vars(updateIncrement)

\* ============================================================== claims ====

Abs(x) == IF x < 0 THEN -x ELSE x
Sgn(x) == IF x < 0 THEN -1 ELSE IF x > 0 THEN 1 ELSE 0
Min(a, b) == IF a <= b THEN a ELSE b

\* Whole steps in a position difference: magnitude rounded down, sign kept.
Steps(diff, pps) == Sgn(diff) * (Abs(diff) \div pps)

IncrementOps == {"increment", "selectorUpdateIncrement"}
ReadFamily   == {"digitalRead", "digitalReadBuffered", "analogRead",
                 "analogReadBuffered", "pinMode", "pinModeBuffered"}
WriteFamily  == {"digitalWrite", "digitalWriteBuffered", "analogWrite",
                 "analogWriteBuffered", "updateBufferedOutputs"}

\* The device has been refreshed at least once.
Refreshed == sampled # <<>>

\* C1: with pulsesPerStep >= 1 and delta the position difference divided by
\* pulsesPerStep truncated toward zero, an update with delta # 0 emits exactly
\* one event of value delta * speedMultiply and advances previousPosition by
\* exactly delta * pulsesPerStep.
C1_StepEmitted ==
    [][(op' = "encoderUpdate" /\ pulsesPerStep >= 1) =>
         LET delta == Steps(position' - previousPosition, pulsesPerStep)
         IN  delta # 0 =>
                /\ Len(sent') = 1
                /\ sent'[1].delta = delta * speedMultiply
                /\ previousPosition' = previousPosition + delta * pulsesPerStep
       ]_vars

\* C1 witness: pulsesPerStep 4, speedMultiply 2, position 6 polled with the
\* remainder kept: value 2 emitted and previousPosition 4, not 6.
C1_Witness ==
    /\ op = "encoderUpdate"
    /\ pulsesPerStep = 4 /\ speedMultiply = 2
    /\ position = 6 /\ previousPosition = 4
    /\ Len(sent) = 1 /\ sent[1].delta = 2

\* C2: with pulsesPerStep >= 1, an update that reads a position less than
\* pulsesPerStep away from previousPosition (either direction) emits nothing
\* and leaves previousPosition unchanged.
C2_SubStepCarried ==
    [][(/\ op' = "encoderUpdate"
        /\ pulsesPerStep >= 1
        /\ Abs(position' - previousPosition) < pulsesPerStep) =>
         (sent' = <<>> /\ previousPosition' = previousPosition)
       ]_vars

\* C2 witness: a backward sub-step motion after a step was emitted.
C2_Witness ==
    /\ op = "encoderUpdate"
    /\ pulsesPerStep = 4
    /\ previousPosition = 4 /\ position = 1
    /\ sent = <<>>

\* C3: with wrap and numberOfSettings >= 1, one increment event from index
\* i in [0, numberOfSettings) selects (i + 1) mod numberOfSettings.
C3_WrapIncrement ==
    [][(/\ op' \in IncrementOps
        /\ wrap
        /\ numberOfSettings >= 1
        /\ setting \in 0..(numberOfSettings - 1)) =>
         (setting' = (setting + 1) % numberOfSettings /\ fault' = "none")
       ]_vars

\* C3 witness: 4 settings, wrap, index 0 selected by an increment event
\* (which can only have come from index 3).
C3_Witness ==
    /\ op = "selectorUpdateIncrement"
    /\ wrap /\ numberOfSettings = 4 /\ setting = 0

\* C4: without wrap and numberOfSettings >= 1, one increment event from index
\* i in [0, numberOfSettings) selects min(i + 1, numberOfSettings - 1); the
\* last index is therefore kept by every further increment event.
C4_ClampIncrement ==
    [][(/\ op' \in IncrementOps
        /\ ~wrap
        /\ numberOfSettings >= 1
        /\ setting \in 0..(numberOfSettings - 1)) =>
         /\ setting' = Min(setting + 1, numberOfSettings - 1)
         /\ fault' = "none"
         /\ (setting = numberOfSettings - 1 => setting' = setting)
       ]_vars

\* C4 witness: 4 settings, no wrap, last index 3 selected by an increment.
C4_Witness ==
    /\ op = "increment"
    /\ ~wrap /\ numberOfSettings = 4 /\ setting = 3

\* C5: after a refresh, for every N up to the buffer width and every pin in
\* [0, N), digitalRead and digitalReadBuffered return bit pin of the value
\* shifted in, i.e. (LSB first) the pin-th sample of the data line; and the
\* two entry points agree in every state.
C5_ReadsShiftedBit ==
    /\ \A pin \in Pins : digitalRead(pin) = digitalReadBuffered(pin)
    /\ (Refreshed /\ N <= BufferBits) =>
          \A pin \in Pins :
             /\ digitalRead(pin) = sampled[pin + 1]
             /\ digitalReadBuffered(pin) = sampled[pin + 1]

\* C5 witness: N = 8, the last refresh sampled a high bit only as its 2nd
\* sample, and a read followed.
C5_Witness ==
    /\ op = "digitalReadBuffered"
    /\ N = 8
    /\ Refreshed
    /\ {i \in 1..ShiftBits : sampled[i] = 1} = {2}
    /\ digitalRead(1) = 1 /\ digitalRead(6) = 0 /\ digitalRead(0) = 0

\* C6: every event emitted by the encoder's update is addressed base address
\* + (bank index at that update) * stride.
C6_FreshAddress ==
    (op = "encoderUpdate" /\ sent # <<>>) =>
        sent[1].address = address + setting * stride

\* C6 witness: base 10, stride 5, bank index 2: an event addressed 20.
C6_Witness ==
    /\ op = "encoderUpdate"
    /\ address = 10 /\ stride = 5 /\ setting = 2
    /\ Len(sent) = 1 /\ sent[1].address = 20

\* C7: digitalRead, digitalReadBuffered, analogRead, analogReadBuffered,
\* pinMode and pinModeBuffered leave the buffer unchanged and perform no
\* operation on the clock, clock-enable or latch line.
C7_ReadsKeepBuffer ==
    [][op' \in ReadFamily =>
         /\ buffer' = buffer
         /\ level' = level
         /\ \A p \in ControlLines : pinModes'[p] = pinModes[p]
         /\ \A i \in 1..Len(trace') : trace'[i][2] \notin ControlLines
       ]_vars

\* C7 witness: a pinModeBuffered call after a refresh that stored a nonzero
\* value.
C7_Witness ==
    /\ op = "pinModeBuffered"
    /\ Refreshed
    /\ buffer = shiftIn(sampled) /\ buffer # 0
    /\ pinModes["data"] = INPUT_PULLUP

\* C8: the write-family calls change neither the buffer nor any control
\* line, so every later digitalRead returns what it would have returned.
C8_WritesChangeNothing ==
    [][op' \in WriteFamily =>
         /\ buffer' = buffer
         /\ level' = level
         /\ pinModes' = pinModes
         /\ trace' = <<>>
         /\ \A pin \in Pins : digitalRead(pin)' = digitalRead(pin)
       ]_vars

\* C8 witness: a digitalWrite call after begin() and a refresh that stored a
\* nonzero value.
C8_Witness ==
    /\ op = "digitalWrite"
    /\ Refreshed
    /\ buffer # 0
    /\ level["load"] = HIGH

\* C9: before the first refresh digitalRead and digitalReadBuffered return 0
\* for every pin in [0, N).
C9_ZeroBeforeRefresh ==
    ~Refreshed =>
        \A pin \in Pins : digitalRead(pin) = 0 /\ digitalReadBuffered(pin) = 0

\* C10: with 0 or 1 settings no increment passes set() an index outside
\* [0, numberOfSettings), and with 1 setting the index stays 0.
C10_SmallNeverFaults ==
    numberOfSettings \in {0, 1} =>
        /\ fault # "range"
        /\ (numberOfSettings = 1 => setting = 0)

\* C11: with numberOfSettings >= 1 and either wrap value, after any sequence
\* of selector polls and increment() calls the selected index lies in
\* [0, numberOfSettings) and no value outside that range was passed to set().
C11_IndexInRange ==
    numberOfSettings >= 1 =>
        /\ setting \in 0..(numberOfSettings - 1)
        /\ fault # "range"
        /\ validSetting(incremented(get, getNumberOfSettings, wrap))

\* C11 witness: 3 settings, the last index selected by an increment() call
\* with wrap enabled (the next increment has to wrap).
C11_Witness ==
    /\ op = "increment"
    /\ wrap /\ numberOfSettings = 3 /\ setting = 2
    /\ fault = "none"

\* C12: in a driver-loop iteration whose selector poll processed an increment
\* event, an event emitted by the encoder in the same iteration is addressed
\* base + new index * stride, and not with the index from before the poll
\* whenever the poll changed the index.
C12_SameCycleBank ==
    [][(op' = "loopIncrement" /\ sent' # <<>>) =>
         /\ sent'[1].address = address + setting' * stride
         /\ (setting' # setting =>
                sent'[1].address # address + setting * stride)
       ]_vars

\* C12 witness: an iteration whose poll selected index 2 of 4 (without wrap,
\* so from index 1) and whose encoder update sent to 10 + 2 * 5.
C12_Witness ==
    /\ op = "loopIncrement"
    /\ ~wrap /\ numberOfSettings = 4 /\ setting = 2
    /\ address = 10 /\ stride = 5
    /\ Len(sent) = 1 /\ sent[1].address = 20

\* Level of pin established by the operations before the i-th one of ops.
LevelBefore(ops, i, pin) == LastSet(SubSeq(ops, 1, i - 1), "write", pin)

\* Number of data-line samples among the first i operations of ops.
SamplesUpTo(ops, i) == Cardinality({j \in 1..i : ops[j][1] = "sample"})

\* C13: a refresh drives latch low, latch high, clock-enable low, then shifts
\* the data bits in LSB first, stores them, and drives clock-enable high;
\* every clock pulse, data sample and the buffer write happen with latch high
\* and clock-enable low.
C13_RefreshOrder ==
    op = "updateBufferedInputs" =>
        LET n == Len(trace)
        IN  /\ n >= 5
            /\ trace[1] = WriteOp("load", LOW)
            /\ trace[2] = WriteOp("load", HIGH)
            /\ trace[3] = WriteOp("clockEnable", LOW)
            /\ \A i \in 4..(n - 2) : trace[i][2] \in {"clock", "data"}
            /\ trace[n - 1] = StoreOp(buffer)
            /\ trace[n] = WriteOp("clockEnable", HIGH)
            /\ \A i \in 1..n :
                  (trace[i][2] \in {"clock", "data", "buffer"}) =>
                      /\ LevelBefore(trace, i, "load") = {HIGH}
                      /\ LevelBefore(trace, i, "clockEnable") = {LOW}
            /\ \A i \in 1..n :
                  trace[i][1] = "sample" =>
                      trace[i][3] = bitRead(buffer, SamplesUpTo(trace, i) - 1)

\* C13 witness: a refresh that sampled a high bit as its 2nd sample only
\* and stored 2.
C13_Witness ==
    /\ op = "updateBufferedInputs"
    /\ buffer = 2
    /\ {i \in 1..ShiftBits : sampled[i] = 1} = {2}
    /\ level["clockEnable"] = HIGH

\* begin() has run: only begin() makes the clock pin an output.
Begun == pinModes["clock"] = OUTPUT

\* The control lines at rest: clock low, latch high, clock-enable high.
LinesIdle ==
    level["clock"] = LOW /\ level["load"] = HIGH /\ level["clockEnable"] = HIGH

\* C14: begin() makes clock, clock-enable and latch outputs and leaves them
\* clock low, latch high, clock-enable high; and in every state after begin()
\* (no refresh being in progress between two operations) the lines are again
\* in that idle state.
C14_IdleAfterBegin ==
    /\ op = "begin" => Begun
    /\ Begun => (LinesIdle /\ \A p \in ControlLines : pinModes[p] = OUTPUT)

\* C14 witness: begin() was called, a refresh completed and a read followed.
C14_Witness ==
    /\ op = "analogRead"
    /\ Begun
    /\ Refreshed /\ buffer # 0
    /\ LinesIdle

\* C15: with pulsesPerStep >= 1, starting from previousPosition = 0, after
\* every update previousPosition is a multiple of pulsesPerStep and differs
\* from the position read by less than pulsesPerStep.
C15_RemainderBound ==
    pulsesPerStep >= 1 =>
        /\ previousPosition % pulsesPerStep = 0
        /\ Abs(position - previousPosition) < pulsesPerStep

\* C15 witness: pulsesPerStep 4, position -6 read: one step back emitted and
\* a remainder of -2 kept.
C15_Witness ==
    /\ op = "encoderUpdate"
    /\ pulsesPerStep = 4
    /\ position = -6 /\ previousPosition = -4
    /\ Len(sent) = 1 /\ sent[1].delta = -speedMultiply

\* C16: with pulsesPerStep >= 1 the sum of all emitted values equals
\* speedMultiply * previousPosition / pulsesPerStep.
C16_StepConservation ==
    pulsesPerStep >= 1 =>
        /\ total * pulsesPerStep = speedMultiply * previousPosition
        /\ total = speedMultiply * (previousPosition \div pulsesPerStep)

\* C16 witness: pulsesPerStep 2, speedMultiply 2: after polls that ended two
\* steps back with half a step pending and nothing sent by the last poll, the
\* sum sent is -4.
C16_Witness ==
    /\ op = "encoderUpdate"
    /\ pulsesPerStep = 2 /\ speedMultiply = 2
    /\ position = -5 /\ previousPosition = -4
    /\ sent = <<>>
    /\ total = -4

\* Operations that poll the selector, and those that process an increment.
PollOps      == {"selectorUpdateIncrement", "selectorUpdateNothing",
                 "loopIncrement", "loopNothing"}
AdvancingOps == {"increment", "selectorUpdateIncrement", "loopIncrement"}

\* C17: a poll that observes no increment event and beginInput() leave the
\* selected index unchanged, the index changes only when an increment is
\* processed, and the button is sampled only inside update().
C17_IndexChangesOnEventOnly ==
    [][/\ (op' \in {"selectorUpdateNothing", "loopNothing", "beginInput"} =>
              setting' = setting)
       /\ (setting' # setting => op' \in AdvancingOps)
       /\ (buttonSampled' => op' \in PollOps)
      ]_vars

\* C17 witness: a poll without increment event at index 2 of 4.
C17_Witness ==
    /\ op = "selectorUpdateNothing"
    /\ buttonSampled
    /\ numberOfSettings = 4 /\ setting = 2

\* C18: a refresh clocks in exactly N bits, one per pin, into an N-bit
\* buffer: N clock pulses, N samples, and a buffer bit for each of the N pins.
C18_ShiftsNBits ==
    op = "updateBufferedInputs" =>
        /\ SamplesUpTo(trace, Len(trace)) = N
        /\ Cardinality({i \in 1..Len(trace) :
                           trace[i] = WriteOp("clock", HIGH)}) = N
        /\ N <= BufferBits

RECURSIVE IncrementedTimes(_, _, _, _)
\* The index after k increment events from index s.
IncrementedTimes(s, n, w, k) ==
    IF k = 0 THEN s ELSE incremented(IncrementedTimes(s, n, w, k - 1), n, w)

\* C19: with wrap and n = numberOfSettings >= 1, n consecutive increment
\* events lead back to the starting index through all n settings; and when
\* increment events keep occurring every setting is selected again and again.
C19_WrapCycle ==
    /\ []((wrap /\ numberOfSettings >= 1
                /\ setting \in 0..(numberOfSettings - 1)) =>
            /\ IncrementedTimes(setting, numberOfSettings, wrap,
                                numberOfSettings) = setting
            /\ {IncrementedTimes(setting, numberOfSettings, wrap, k) :
                    k \in 1..numberOfSettings} = 0..(numberOfSettings - 1))
    /\ \A k \in 0..(MaxSettings - 1) :
          []<>((wrap /\ k < numberOfSettings) => setting = k)

\* C19 witness: 3 settings, wrap: index 0 selected again by an increment
\* event, after a full cycle.
C19_Witness ==
    /\ op = "selectorUpdateIncrement"
    /\ wrap /\ numberOfSettings = 3 /\ setting = 0
    /\ buttonSampled

\* C20: update() never divides by pulsesPerStep = 0: it is never reached with
\* pulsesPerStep = 0 and the division never faults.
C20_DivisionDefined ==
    /\ fault # "div"
    /\ op = "encoderUpdate" => pulsesPerStep >= 1

====
